---- MODULE Spec2Model ----
(***************************************************************************)
(* War at Sea deckbuilder (src/src/Deckbuilder.jsx): the deck state of the *)
(* App component with its add / remove / clear / recommend handlers, the   *)
(* catalog filter, the totals, and the magic-link cooldown.                *)
(***************************************************************************)
EXTENDS Integers, Sequences, FiniteSets, TLC

VARIABLES
    \* App state of the deck builder
    session, units, ownership, ownLoad, pointCap, factionRule, ownedOnly,
    q, nation, type, deck,
    \* App state of the magic-link form, the clock, localStorage, the scheduled
    \* intervals, the cooldownUntil the cooldown effect last ran for, and the
    \* sign-in requests in flight
    email, error, ok, cooldownUntil, cooldownLeft, stored, intervals, effectDeps,
    inflight, now,
    \* saving of saveDeck: its requests to the decks endpoint are under way;
    \* the request saveDeck awaits with the deck of its render, and the rows
    \* the decks and deck_units tables hold
    saving, saveCall, persisted,
    \* argument and result of parseWaitSeconds
    msg, parsed,
    \* history: the last operation, the additions of the last recommend, the
    \* last sign-in response, cooldownUntil before the last response or restart
    lastOp, recLog, resp, prevUntil

deckVars == <<session, units, ownership, ownLoad, pointCap, factionRule, ownedOnly,
              q, nation, type, deck, recLog>>
signVars == <<email, error, ok, cooldownUntil, cooldownLeft, stored, intervals, effectDeps,
              inflight, now, resp, prevUntil, saving, saveCall, persisted>>
parseVars == <<msg, parsed>>

vars == <<deckVars, signVars, parseVars, lastOp>>

---------------------------------------------------------------------------
(* Bounds of the model *)

\* copies of one unit the add controls are followed up to
MaxCount == 3
\* the user clicks among the first MaxCapIdx presets of POINT_CAPS
MaxCapIdx == 2
\* filters (search text, nation, type) away from their defaults at one time
MaxActiveFilters == 1

---------------------------------------------------------------------------
(* Program constants *)

POINT_CAPS == <<50, 80, 110, 150, 200, 250>>
DEFAULT_CAP == 150
DEFAULT_RULE == "axis_only"
\* ownership[u.id]?.copies ?? 99
DefaultCopies == 99
\* if (pointCap-pts < 3) break
ReserveMargin == 3

FactionRules == {"axis_only", "allies_only", "mixed"}

axis == {"Germany", "Italy", "Japan", "Finland", "Romania", "Hungary", "Bulgaria", "Axis"}
allies == {"USA", "United States", "United Kingdom", "UK", "Britain", "Soviet Union",
           "USSR", "France", "Canada", "Netherlands", "Poland", "Australia",
           "New Zealand", "Greece", "Norway", "Allies"}

NoSession == "null"

---------------------------------------------------------------------------
(* Catalog rows: what the units + unit_stats load can return.  A row is    *)
(* {id, name, abilities, nation, type, points, stats}; name and abilities  *)
(* are character sequences, stats the four effective_gunnerytotal_r.       *)

Row(id, name, abilities, nat, typ, points, stats) ==
    [id |-> id, name |-> name, abilities |-> abilities, nation |-> nat,
     type |-> typ, points |-> points, stats |-> stats]

Bismarck == Row("bis", <<"B", "i", "s">>, <<"A", "A">>, "Germany", "Ship", 45, <<40, 40, 30, 25>>)
Iowa     == Row("iow", <<"I", "o", "w">>, <<"A", "A">>, "USA", "Ship", 40, <<30, 30, 20, 20>>)
Gotland  == Row("got", <<"G", "o", "t">>, <<>>, "Sweden", "Air", 48, <<20, 20, 4, 4>>)
Fletcher == Row("fle", <<"F", "l", "e">>, <<"S", "s">>, "USA", "Ship", 10, <<6, 6, 4, 4>>)
Uboat    == Row("ubo", <<"U", "b", "o">>, <<"S", "s">>, "Germany", "Sub", 3, <<1, 1, 1, 0>>)
Mas      == Row("mas", <<"M", "a", "s">>, <<>>, "Italy", "Ship", 2, <<1, 0, 0, 0>>)
Decoy    == Row("dec", <<"D", "e", "c">>, <<>>, "Japan", "Ship", 0, <<0, 0, 0, 0>>)

\* the catalog the units load of the deck specification returns
Catalog == <<Bismarck, Iowa, Gotland>>

UnitIds == {"bis", "iow", "got", "fle", "ubo", "mas", "dec"}

OwnRec(owned, copies) == [owned |-> owned, copies |-> copies]

\* ownership maps the user_ownership load can return (unit_id -> row)
OwnershipMaps ==
    { [id \in {"bis", "iow"} |-> IF id = "bis" THEN OwnRec(TRUE, 3) ELSE OwnRec(TRUE, 1)],
      [id \in {"bis", "iow", "got"} |->
          IF id = "got" THEN OwnRec(FALSE, 0) ELSE OwnRec(TRUE, 2)] }

EmptyMap == [id \in {} |-> 0]

---------------------------------------------------------------------------
(* Object helpers: prev[id] || 0, {...prev, [id]: n}, delete *)

Get(d, id) == IF id \in DOMAIN d THEN d[id] ELSE 0

Put(d, id, n) == [x \in (DOMAIN d) \cup {id} |-> IF x = id THEN n ELSE d[x]]

Del(d, id) == [x \in (DOMAIN d) \ {id} |-> d[x]]

Max(a, b) == IF a >= b THEN a ELSE b

---------------------------------------------------------------------------
(* filtered (useMemo) *)

Lower(c) ==
    CASE c = "A" -> "a" [] c = "B" -> "b" [] c = "I" -> "i" [] c = "G" -> "g"
      [] c = "F" -> "f" [] c = "U" -> "u" [] c = "M" -> "m" [] c = "D" -> "d"
      [] c = "S" -> "s" [] OTHER -> c

\* a toLowerCase that leaves the case as it is
SameCase(s) == s

toLowerCase(s) == [i \in 1..Len(s) |-> Lower(s[i])]

includes(s, sub) ==
    \E i \in 0..(Len(s) - Len(sub)) : SubSeq(s, i + 1, i + Len(sub)) = sub

IsOwned(own, id) == id \in DOMAIN own /\ (own[id].owned \/ own[id].copies > 0)

Filtered(us, qv, nat, typ, rule, oo, own) ==
    LET textOk(u) == qv = <<>> \/ includes(toLowerCase(u.name), toLowerCase(qv))
                               \/ includes(toLowerCase(u.abilities), toLowerCase(qv))
        natOk(u) == nat = "All" \/ u.nation = nat
        typOk(u) == typ = "All" \/ u.type = typ
        facOk(u) == rule = "mixed"
                    \/ (IF rule = "axis_only" THEN u.nation \in axis ELSE u.nation \in allies)
        ownOk(u) == ~oo \/ IsOwned(own, u.id)
        keep(u) == textOk(u) /\ natOk(u) /\ typOk(u) /\ facOk(u) /\ ownOk(u)
    IN SelectSeq(us, keep)

filtered == Filtered(units, q, nation, type, factionRule, ownedOnly, ownership)

\* the option lists of the nation and type selects
nations == {"All"} \cup {units[i].nation : i \in 1..Len(units)}
types == {"All"} \cup {units[i].type : i \in 1..Len(units)}

---------------------------------------------------------------------------
(* deck derived values *)

\* the unit of a deck entry: units.find(x => x.id === unit_id)
HasUnit(us, id) == \E i \in 1..Len(us) : us[i].id = id
UnitOf(us, id) == us[CHOOSE i \in 1..Len(us) : us[i].id = id /\ \A j \in 1..(i - 1) : us[j].id # id]

\* ids of the entries of deckItems (entries whose unit is in the catalog)
DeckItemIds(d, us) == {id \in DOMAIN d : HasUnit(us, id)}

RECURSIVE SumPoints(_, _, _)
SumPoints(ids, d, us) ==
    IF ids = {} THEN 0
    ELSE LET id == CHOOSE x \in ids : TRUE
         IN UnitOf(us, id).points * d[id] + SumPoints(ids \ {id}, d, us)

DeckPoints(d, us) == SumPoints(DeckItemIds(d, us), d, us)

FactionOfDeck(d, us) ==
    LET nationsInDeck == {UnitOf(us, id).nation : id \in DeckItemIds(d, us)}
        allAxis == \A n \in nationsInDeck : n \in axis
        allAllies == \A n \in nationsInDeck : n \in allies
    IN IF allAxis THEN "Axis" ELSE IF allAllies THEN "Allies" ELSE "Mixed"

deckPoints == DeckPoints(deck, units)
factionOfDeck == FactionOfDeck(deck, units)

maxCopies(own, id) == IF id \in DOMAIN own THEN own[id].copies ELSE DefaultCopies

RuleFaction(rule) == IF rule = "axis_only" THEN "Axis" ELSE "Allies"

\* the disabled expression of the "+ Add" button
Disabled(u) ==
    \/ Get(deck, u.id) >= maxCopies(ownership, u.id)
    \/ deckPoints + u.points > pointCap
    \/ (factionRule # "mixed" /\ DeckItemIds(deck, units) # {}
        /\ factionOfDeck # RuleFaction(factionRule))

---------------------------------------------------------------------------
(* deck updaters *)

addToDeckUpdate(prev, id, maxC) ==
    LET cur == Get(prev, id)
    IN IF cur >= maxC THEN prev ELSE Put(prev, id, cur + 1)

\* an updater that deletes the entry whatever its count
removeFromDeckDeleting(prev, id) == Del(prev, id)

\* an updater that never deletes the entry
removeFromDeckCounting(prev, id) == Put(prev, id, Get(prev, id) - 1)

removeFromDeckUpdate(prev, id) ==
    LET cur == Get(prev, id)
    IN IF cur <= 1 THEN Del(prev, id) ELSE Put(prev, id, cur - 1)

---------------------------------------------------------------------------
(* recommend *)

effSum(u) == u.stats[1] + u.stats[2] + u.stats[3] + u.stats[4]

\* Math.max(1, u.points||1)
scoreDen(u) == Max(1, IF u.points = 0 THEN 1 ELSE u.points)

\* a.score > b.score, the scores being effSum / scoreDen
ScoreGreater(a, b) == effSum(a) * scoreDen(b) > effSum(b) * scoreDen(a)

\* one element put into a list sorted by descending score, after its equals
RECURSIVE InsertByScore(_, _)
InsertByScore(sorted, u) ==
    IF sorted = <<>> THEN <<u>>
    ELSE IF ScoreGreater(u, Head(sorted)) THEN <<u>> \o sorted
    ELSE <<Head(sorted)>> \o InsertByScore(Tail(sorted), u)

\* a pool left in catalog order
CatalogOrder(pool) == pool

\* .sort((a,b)=>b.score-a.score): stable, descending
RECURSIVE SortByScore(_)
SortByScore(pool) ==
    IF pool = <<>> THEN <<>>
    ELSE InsertByScore(SortByScore(SubSeq(pool, 1, Len(pool) - 1)), pool[Len(pool)])

\* a loop whose while condition forgets the cost of the copy to add
LoopExitsIgnoringCost(u, limit, cap, st, k) ==
    \/ ~(st.pts + k * u.points <= cap)
    \/ Get(st.next, u.id) + k >= limit
    \/ (k >= 1 /\ cap - (st.pts + k * u.points) < ReserveMargin)

\* a loop without the reserve break
LoopExitsWithoutReserve(u, limit, cap, st, k) ==
    \/ ~(st.pts + k * u.points + u.points <= cap)
    \/ Get(st.next, u.id) + k >= limit

\* the while loop of one candidate, st = [next, pts, log] at its entry: with
\* k copies added so far the loop is left when the while condition fails,
\* at the copies cap, or at the reserve break that follows an addition
LoopExits(u, limit, cap, st, k) ==
    \/ ~(st.pts + k * u.points + u.points <= cap)
    \/ Get(st.next, u.id) + k >= limit
    \/ (k >= 1 /\ cap - (st.pts + k * u.points) < ReserveMargin)

\* the number of iterations that add a copy: the first k at which the loop is left
CopiesAdded(u, limit, cap, st) ==
    LET most == Max(0, limit - Get(st.next, u.id))
    IN CHOOSE k \in 0..most :
          /\ LoopExits(u, limit, cap, st, k)
          /\ \A j \in 0..(k - 1) : ~LoopExits(u, limit, cap, st, j)

FillCandidate(u, limit, cap, st) ==
    LET n == CopiesAdded(u, limit, cap, st)
        cur0 == Get(st.next, u.id)
    IN IF n = 0 THEN st
       ELSE [next |-> Put(st.next, u.id, cur0 + n),
             pts |-> st.pts + n * u.points,
             log |-> st.log \o [j \in 1..n |->
                        [id |-> u.id, spent |-> st.pts + (j - 1) * u.points,
                         cur |-> cur0 + j - 1, limit |-> limit, points |-> u.points]]]

\* the for loop over the scored candidates
RECURSIVE FillFrom(_, _, _, _, _)
FillFrom(scored, i, own, cap, st) ==
    IF i > Len(scored) THEN st
    ELSE LET st2 == FillCandidate(scored[i], maxCopies(own, scored[i].id), cap, st)
         IN IF st2.pts >= cap - 1 THEN st2
            ELSE FillFrom(scored, i + 1, own, cap, st2)

Recommend(pool, own, cap) ==
    FillFrom(SortByScore(pool), 1, own, cap, [next |-> EmptyMap, pts |-> 0, log |-> <<>>])

---------------------------------------------------------------------------
(* parseWaitSeconds: strings are character sequences *)

Digits == <<"0", "1", "2", "3", "4", "5", "6", "7", "8", "9">>

DigitSet == {Digits[d] : d \in 1..Len(Digits)}

\* \d
IsDigit(c) == c \in DigitSet
DigitValue(c) == (CHOOSE d \in 1..Len(Digits) : Digits[d] = c) - 1

\* \s
IsSpace(c) == c = " "

Letters == {"a", "c", "d", "e", "f", "i", "m", "n", "o", "r", "s", "t", "u", "w", "x",
            "A", "B", "D", "F", "G", "I", "M", "S", "U"}

\* \w
IsWordChar(c) == c \in Letters \/ IsDigit(c) \/ c = "_"

\* parseInt(digits, 10), also Number(digits)
RECURSIVE parseInt(_)
parseInt(ds) ==
    IF ds = <<>> THEN 0
    ELSE 10 * parseInt(SubSeq(ds, 1, Len(ds) - 1)) + DigitValue(ds[Len(ds)])

\* String(n) of a non-negative integer
RECURSIVE String(_)
String(n) ==
    IF n < 10 THEN <<Digits[n + 1]>>
    ELSE String(n \div 10) \o <<Digits[(n % 10) + 1]>>

secondWords == <<<<"s", "e", "c", "o", "n", "d">>, <<"s", "e", "c">>, <<"s">>>>
minuteWords == <<<<"m", "i", "n", "u", "t", "e">>, <<"m", "i", "n">>, <<"m">>>>

\* the word w stands at position k of s (the /i flag), followed by \b
WordAt(s, k, w) ==
    /\ k + Len(w) - 1 <= Len(s)
    /\ toLowerCase(SubSeq(s, k, k + Len(w) - 1)) = w
    /\ (k + Len(w) > Len(s) \/ ~IsWordChar(s[k + Len(w)]))

\* the end of the run of digits that holds position j
RECURSIVE DigitsEnd(_, _)
DigitsEnd(s, j) == IF j < Len(s) /\ IsDigit(s[j + 1]) THEN DigitsEnd(s, j + 1) ELSE j

\* the first position after j that holds no space
RECURSIVE SpacesEnd(_, _)
SpacesEnd(s, j) == IF j < Len(s) /\ IsSpace(s[j + 1]) THEN SpacesEnd(s, j + 1) ELSE j + 1

\* (\d+)\s*(?:w1|w2|w3)\b matches s from i: \d+ and \s* take all they can,
\* a shorter \d+ or \s* is followed by a digit or a space, which starts no word
MatchAt(s, i, words) ==
    /\ IsDigit(s[i])
    /\ \E n \in 1..Len(words) : WordAt(s, SpacesEnd(s, DigitsEnd(s, i)), words[n])

\* the start of the leftmost match from i on, 0 without one
RECURSIVE FirstMatch(_, _, _)
FirstMatch(s, i, words) ==
    IF i > Len(s) THEN 0
    ELSE IF MatchAt(s, i, words) THEN i
    ELSE FirstMatch(s, i + 1, words)

HasMatch(s, words) == FirstMatch(s, 1, words) # 0

\* m[1] of msg.match(...)
MatchGroup(s, words) ==
    LET i0 == FirstMatch(s, 1, words)
    IN SubSeq(s, i0, DigitsEnd(s, i0))

\* a result of parseWaitSeconds: null, or a number of seconds
NullWait == [isNull |-> TRUE, n |-> 0]
Seconds(n) == [isNull |-> FALSE, n |-> n]

\* the message of a payload without msg
NoMsg == <<"undefined">>

parseWaitSeconds(m) ==
    IF m = NoMsg \/ m = <<>> THEN NullWait
    ELSE IF HasMatch(m, secondWords) THEN Seconds(parseInt(MatchGroup(m, secondWords)))
    ELSE IF HasMatch(m, minuteWords) THEN Seconds(parseInt(MatchGroup(m, minuteWords)) * 60)
    ELSE NullWait

---------------------------------------------------------------------------
(* The cooldown of the magic-link form *)

\* Date.now() is in milliseconds
MsPerSecond == 1000
\* const wait = e.wait ?? 60
FallbackWait == 60

\* Math.ceil(a / 1000)
CeilSeconds(a) == -((-a) \div MsPerSecond)

\* a countdown that rounds down
CountdownLeftFloor(until, t) == Max(0, (until - t) \div MsPerSecond)

\* left of tick: Math.max(0, Math.ceil((cooldownUntil - Date.now()) / 1000))
CountdownLeft(until, t) == Max(0, CeilSeconds(until - t))

\* an initialiser that does not read localStorage
CooldownUntilUnread(item) == 0

\* the useState initialiser of cooldownUntil: Number(getItem(...) || 0) || 0
InitialCooldownUntil(item) == IF item = <<>> THEN 0 ELSE parseInt(item)

\* an interval set by the effect run for the deadline until, its callback
\* due at next
Interval(until, next) == [until |-> until, next |-> next]

\* effectDeps of a mounted component whose effects have not run yet
NoDeps == -1

\* a cleanup that leaves the interval scheduled
KeepInterval(ivs, until) == ivs

\* if (id) clearInterval(id), id being the interval of the effect run for until
clearInterval(ivs, until) == {i \in ivs : i.until # until}

\* the cooldown effect run at t for a (new) cooldownUntil: the cleanup of
\* the run for deps clears its interval, then tick runs once and the
\* interval is set, or cooldownLeft is set to 0
CooldownEffect(ivs, deps, until, t) ==
    LET cleared == clearInterval(ivs, deps) IN
    IF until > t
    THEN [left |-> CountdownLeft(until, t),
          intervals |-> cleared \cup {Interval(until, t + MsPerSecond)}]
    ELSE [left |-> 0, intervals |-> cleared]

\* const wait = e.wait ?? 60
WaitOf(w) == IF w.isNull THEN FallbackWait ELSE w.n

\* a deadline that never moves back
NewDeadlineKeepingLater(old, t, wait) == Max(old, t + wait * MsPerSecond)

\* const until = Date.now() + wait * 1000
NewDeadline(old, t, wait) == t + wait * MsPerSecond

RateLimitCode == 429

\* a catch that takes every failure for a rate limit
EveryFailure(r) == TRUE

\* e.code === 429 || e.error_code === 'over_email_send_rate_limit'
IsRateLimit(r) == r.code = RateLimitCode \/ r.error_code = "over_email_send_rate_limit"

\* disabled of the sign-in button
SignInDisabled == email = <<>> \/ cooldownLeft > 0

\* saveDeck at an await: the request it waits for, the deck its payload is
\* built from, the place of deckRow in the decks table
Call(pc, payload, deckRow) == [pc |-> pc, payload |-> payload, deckRow |-> deckRow]
NoCall == Call("idle", EmptyMap, 0)

\* a row of the decks table and whether deck_units holds its entries
DeckRow(payload, entries) == [payload |-> payload, entries |-> entries]

Err(kind, n) == [kind |-> kind, n |-> n]
NoText == Err("", 0)

NoResp == [okay |-> TRUE, code |-> 0, error_code |-> "-", msg |-> <<>>]

---------------------------------------------------------------------------
(* State after construction *)

\* the form, the clock and localStorage of a first start
SignInit ==
    /\ email = <<>>
    /\ error = NoText
    /\ ok = NoText
    /\ stored = <<>>
    /\ cooldownUntil = InitialCooldownUntil(<<>>)
    /\ cooldownLeft = 0
    /\ intervals = {}
    /\ effectDeps = cooldownUntil
    /\ inflight = 0
    /\ now = 0
    /\ resp = NoResp
    /\ prevUntil = 0
    /\ saving = FALSE
    /\ saveCall = NoCall
    /\ persisted = <<>>

ParseIdle ==
    /\ msg = NoMsg
    /\ parsed = NullWait

Op(op, id, changed) == [op |-> op, id |-> id, changed |-> changed]

\* the useState initial values of the deck builder
DeckInit ==
    /\ session = NoSession
    /\ units = <<>>
    /\ ownership = EmptyMap
    /\ ownLoad = "idle"
    /\ pointCap = DEFAULT_CAP
    /\ factionRule = DEFAULT_RULE
    /\ ownedOnly = TRUE
    /\ q = <<>>
    /\ nation = "All"
    /\ type = "All"
    /\ deck = EmptyMap
    /\ recLog = <<>>

Init ==
    /\ SignInit
    /\ ParseIdle
    /\ DeckInit
    /\ lastOp = Op("init", "-", FALSE)

---------------------------------------------------------------------------
(* Loads *)

\* the units + unit_stats load completes
LoadUnits ==
    /\ units = <<>>
    /\ units' = Catalog
    /\ UNCHANGED <<signVars, parseVars>>
    /\ lastOp' = Op("load", "-", FALSE)
    /\ recLog' = <<>>
    /\ UNCHANGED <<session, ownership, ownLoad, pointCap, factionRule, ownedOnly,
                   q, nation, type, deck>>

\* the access token of the URL resolves to a user: setSession; the ownership
\* effect then starts its fetch
SignedIn ==
    /\ session = NoSession
    /\ session' = "user"
    /\ ownLoad' = "pending"
    /\ UNCHANGED <<signVars, parseVars>>
    /\ lastOp' = Op("load", "-", FALSE)
    /\ recLog' = <<>>
    /\ UNCHANGED <<units, ownership, pointCap, factionRule, ownedOnly, q, nation, type, deck>>

\* the user_ownership fetch completes: setOwnership(map)
OwnershipLoaded ==
    /\ ownLoad = "pending"
    /\ \E m \in OwnershipMaps : ownership' = m
    /\ ownLoad' = "done"
    /\ UNCHANGED <<signVars, parseVars>>
    /\ lastOp' = Op("load", "-", FALSE)
    /\ recLog' = <<>>
    /\ UNCHANGED <<session, units, pointCap, factionRule, ownedOnly, q, nation, type, deck>>

---------------------------------------------------------------------------
(* Rules and filters *)

SetPointCap ==
    /\ \E i \in 1..MaxCapIdx : pointCap' = POINT_CAPS[i]
    /\ UNCHANGED <<signVars, parseVars>>
    /\ lastOp' = Op("rule", "-", FALSE)
    /\ recLog' = <<>>
    /\ UNCHANGED <<session, units, ownership, ownLoad, factionRule, ownedOnly,
                   q, nation, type, deck>>

SetFactionRule ==
    /\ \E r \in FactionRules : factionRule' = r
    /\ UNCHANGED <<signVars, parseVars>>
    /\ lastOp' = Op("rule", "-", FALSE)
    /\ recLog' = <<>>
    /\ UNCHANGED <<session, units, ownership, ownLoad, pointCap, ownedOnly,
                   q, nation, type, deck>>

\* the checkbox is disabled without a session
SetOwnedOnly ==
    /\ session # NoSession
    /\ ownedOnly' = ~ownedOnly
    /\ UNCHANGED <<signVars, parseVars>>
    /\ lastOp' = Op("rule", "-", FALSE)
    /\ recLog' = <<>>
    /\ UNCHANGED <<session, units, ownership, ownLoad, pointCap, factionRule,
                   q, nation, type, deck>>

\* search texts the user types
QChoices == {<<>>, <<"I">>, <<"a", "a">>}

ActiveFilters(qv, nat, typ) ==
    (IF qv # <<>> THEN 1 ELSE 0) + (IF nat # "All" THEN 1 ELSE 0) + (IF typ # "All" THEN 1 ELSE 0)

SetQ ==
    /\ \E t \in QChoices : q' = t /\ ActiveFilters(t, nation, type) <= MaxActiveFilters
    /\ UNCHANGED <<signVars, parseVars>>
    /\ lastOp' = Op("filter", "-", FALSE)
    /\ recLog' = <<>>
    /\ UNCHANGED <<session, units, ownership, ownLoad, pointCap, factionRule, ownedOnly,
                   nation, type, deck>>

SetNation ==
    /\ \E n \in nations : nation' = n /\ ActiveFilters(q, n, type) <= MaxActiveFilters
    /\ UNCHANGED <<signVars, parseVars>>
    /\ lastOp' = Op("filter", "-", FALSE)
    /\ recLog' = <<>>
    /\ UNCHANGED <<session, units, ownership, ownLoad, pointCap, factionRule, ownedOnly,
                   q, type, deck>>

SetType ==
    /\ \E t \in types : type' = t /\ ActiveFilters(q, nation, t) <= MaxActiveFilters
    /\ UNCHANGED <<signVars, parseVars>>
    /\ lastOp' = Op("filter", "-", FALSE)
    /\ recLog' = <<>>
    /\ UNCHANGED <<session, units, ownership, ownLoad, pointCap, factionRule, ownedOnly,
                   q, nation, deck>>

\* the Reset button
ResetFilters ==
    /\ q' = <<>>
    /\ nation' = "All"
    /\ type' = "All"
    /\ UNCHANGED <<signVars, parseVars>>
    /\ lastOp' = Op("filter", "-", FALSE)
    /\ recLog' = <<>>
    /\ UNCHANGED <<session, units, ownership, ownLoad, pointCap, factionRule, ownedOnly, deck>>

---------------------------------------------------------------------------
(* Deck handlers *)

\* followed while the count stays within the model's bound
WithinCount(id) == Get(deck, id) < MaxCount \/ Get(deck, id) >= maxCopies(ownership, id)

addToDeck(u) ==
    deck' = addToDeckUpdate(deck, u.id, maxCopies(ownership, u.id))

\* "+ Add" of a row of the available-units list
AddFromList ==
    \E i \in 1..Len(filtered) :
        LET u == filtered[i] IN
        /\ ~Disabled(u)
        /\ WithinCount(u.id)
        /\ addToDeck(u)
        /\ UNCHANGED <<signVars, parseVars>>
        /\ lastOp' = Op("addList", u.id, deck' # deck)
        /\ recLog' = <<>>
        /\ UNCHANGED <<session, units, ownership, ownLoad, pointCap, factionRule,
                       ownedOnly, q, nation, type>>

\* "+" of a row of the deck panel
AddFromPanel ==
    \E id \in DeckItemIds(deck, units) :
        LET u == UnitOf(units, id) IN
        /\ WithinCount(u.id)
        /\ addToDeck(u)
        /\ UNCHANGED <<signVars, parseVars>>
        /\ lastOp' = Op("addPanel", u.id, deck' # deck)
        /\ recLog' = <<>>
        /\ UNCHANGED <<session, units, ownership, ownLoad, pointCap, factionRule,
                       ownedOnly, q, nation, type>>

removeFromDeck(u) == deck' = removeFromDeckUpdate(deck, u.id)

\* the minus button of the list (disabled when the unit is not in the deck)
\* and of the deck panel
RemoveFromList ==
    \E i \in 1..Len(filtered) :
        LET u == filtered[i] IN
        /\ Get(deck, u.id) # 0
        /\ removeFromDeck(u)
        /\ UNCHANGED <<signVars, parseVars>>
        /\ lastOp' = Op("removeList", u.id, deck' # deck)
        /\ recLog' = <<>>
        /\ UNCHANGED <<session, units, ownership, ownLoad, pointCap, factionRule,
                       ownedOnly, q, nation, type>>

RemoveFromPanel ==
    \E id \in DeckItemIds(deck, units) :
        /\ removeFromDeck(UnitOf(units, id))
        /\ UNCHANGED <<signVars, parseVars>>
        /\ lastOp' = Op("removePanel", id, deck' # deck)
        /\ recLog' = <<>>
        /\ UNCHANGED <<session, units, ownership, ownLoad, pointCap, factionRule,
                       ownedOnly, q, nation, type>>

clearDeck ==
    /\ deck' = EmptyMap
    /\ UNCHANGED <<signVars, parseVars>>
    /\ lastOp' = Op("clearDeck", "-", deck' # deck)
    /\ recLog' = <<>>
    /\ UNCHANGED <<session, units, ownership, ownLoad, pointCap, factionRule,
                   ownedOnly, q, nation, type>>

\* a recommend that fills the deck it finds instead of an empty one
recommendOntoDeck ==
    LET r == FillFrom(SortByScore(filtered), 1, ownership, pointCap,
                      [next |-> deck, pts |-> deckPoints, log |-> <<>>]) IN
    /\ deck' = r.next
    /\ recLog' = r.log
    /\ UNCHANGED <<signVars, parseVars>>
    /\ lastOp' = Op("recommend", IF DOMAIN deck = {} THEN "empty" ELSE "held", deck' # deck)
    /\ UNCHANGED <<session, units, ownership, ownLoad, pointCap, factionRule,
                   ownedOnly, q, nation, type>>

\* the Recommend button; lastOp.id tells whether the deck held units before
recommend ==
    LET r == Recommend(filtered, ownership, pointCap) IN
    /\ deck' = r.next
    /\ recLog' = r.log
    /\ UNCHANGED <<signVars, parseVars>>
    /\ lastOp' = Op("recommend", IF DOMAIN deck = {} THEN "empty" ELSE "held", deck' # deck)
    /\ UNCHANGED <<session, units, ownership, ownLoad, pointCap, factionRule,
                   ownedOnly, q, nation, type>>

---------------------------------------------------------------------------
(* saveDeck: the validation, the requests to the decks endpoint, their end *)

\* a validation without the point check
SaveRefusalWithoutCap ==
    IF session = NoSession THEN "Sign in first (magic link)"
    ELSE IF factionRule = "axis_only" /\ factionOfDeck # "Axis" THEN "Deck violates Axis-only rule"
    ELSE IF factionRule = "allies_only" /\ factionOfDeck # "Allies"
    THEN "Deck violates Allies-only rule"
    ELSE ""

\* the first check of saveDeck that fails, "" when none does
SaveRefusal ==
    IF session = NoSession THEN "Sign in first (magic link)"
    ELSE IF deckPoints > pointCap THEN "Deck exceeds point cap"
    ELSE IF factionRule = "axis_only" /\ factionOfDeck # "Axis" THEN "Deck violates Axis-only rule"
    ELSE IF factionRule = "allies_only" /\ factionOfDeck # "Allies"
    THEN "Deck violates Allies-only rule"
    ELSE ""

\* rows of the decks table
MaxRows == 1

\* saveDeck up to its first await: a failed check is thrown, caught and shown,
\* otherwise the deck row is posted
saveDeck ==
    /\ ok' = NoText
    /\ IF SaveRefusal # ""
       THEN /\ error' = Err(SaveRefusal, 0)
            /\ saving' = FALSE
            /\ saveCall' = NoCall
            /\ lastOp' = Op("save", "refused", FALSE)
       ELSE /\ Len(persisted) < MaxRows
            /\ error' = NoText
            /\ saving' = TRUE
            /\ saveCall' = Call("decks", deck, 0)
            /\ lastOp' = Op("save", "sent", FALSE)

\* the Save button, disabled without a session and while saving
SaveButton ==
    /\ ~(saving \/ session = NoSession)
    /\ saveDeck
    /\ recLog' = <<>>
    /\ UNCHANGED <<email, cooldownUntil, cooldownLeft, stored, intervals, effectDeps, inflight,
                   now, resp, prevUntil, persisted>>
    /\ UNCHANGED <<session, units, ownership, ownLoad, pointCap, factionRule, ownedOnly,
                   q, nation, type, deck>>
    /\ UNCHANGED parseVars

\* saveDeck ends: catch or setOk, then finally
SaveEnds(accepted) ==
    /\ IF accepted
       THEN ok' = Err("Deck saved", 0) /\ error' = error
       ELSE error' = Err("save failed", 0) /\ ok' = ok
    /\ saving' = FALSE
    /\ saveCall' = NoCall

\* the POST to decks is answered: refused, saveDeck throws; accepted, the
\* row is stored and saveDeck posts the entries of a deck that has any
DecksResponse ==
    /\ saveCall.pc = "decks"
    /\ \E accepted \in BOOLEAN :
          IF ~accepted
          THEN /\ SaveEnds(FALSE)
               /\ persisted' = persisted
               /\ lastOp' = Op("saved", "decks refused", FALSE)
          ELSE /\ persisted' = Append(persisted, DeckRow(saveCall.payload, FALSE))
               /\ IF DOMAIN saveCall.payload = {}
                  THEN SaveEnds(TRUE) /\ lastOp' = Op("saved", "no entries", FALSE)
                  ELSE /\ saveCall' = Call("deck_units", saveCall.payload, Len(persisted) + 1)
                       /\ lastOp' = Op("saveEntries", "sent", FALSE)
                       /\ UNCHANGED <<error, ok, saving>>
    /\ recLog' = <<>>
    /\ UNCHANGED <<email, cooldownUntil, cooldownLeft, stored, intervals, effectDeps, inflight,
                   now, resp, prevUntil>>
    /\ UNCHANGED <<session, units, ownership, ownLoad, pointCap, factionRule, ownedOnly,
                   q, nation, type, deck>>
    /\ UNCHANGED parseVars

\* the POST to deck_units is answered: accepted, the entries of deckRow are
\* stored; refused, saveDeck throws
DeckUnitsResponse ==
    /\ saveCall.pc = "deck_units"
    /\ \E accepted \in BOOLEAN :
          /\ SaveEnds(accepted)
          /\ persisted' = IF accepted
                          THEN [persisted EXCEPT ![saveCall.deckRow].entries = TRUE]
                          ELSE persisted
          /\ lastOp' = Op("saved", IF accepted THEN "entries" ELSE "entries refused", FALSE)
    /\ recLog' = <<>>
    /\ UNCHANGED <<email, cooldownUntil, cooldownLeft, stored, intervals, effectDeps, inflight,
                   now, resp, prevUntil>>
    /\ UNCHANGED <<session, units, ownership, ownLoad, pointCap, factionRule, ownedOnly,
                   q, nation, type, deck>>
    /\ UNCHANGED parseVars

---------------------------------------------------------------------------

Next ==
    \/ LoadUnits
    \/ SignedIn
    \/ OwnershipLoaded
    \/ SetPointCap
    \/ SetFactionRule
    \/ SetOwnedOnly
    \/ SetQ
    \/ SetNation
    \/ SetType
    \/ ResetFilters
    \/ AddFromList
    \/ AddFromPanel
    \/ RemoveFromList
    \/ RemoveFromPanel
    \/ clearDeck
    \/ recommend

Spec == Init /\ [][Next]_vars

---------------------------------------------------------------------------
(* The magic-link form: onMagicSubmit, the sign-in responses, the cooldown *)
(* effect and its interval, a restart of the page.  The cooldown effect is *)
(* a passive effect: it runs in a step of its own after the state change   *)
(* that triggers it, at the same instant of the clock, and the handlers    *)
(* of the user's events that come before it see the cooldownLeft of the    *)
(* last render.                                                            *)

\* clock steps in a second
StepsPerSecond == 2
\* steps of the clock during which the user acts and responses arrive
MaxSteps == 4
\* sign-in requests in flight at one time
MaxInFlight == 2

TimeStep == MsPerSecond \div StepsPerSecond
MaxNow == MaxSteps * TimeStep

EventsAllowed == now < MaxNow

TxtAfter == <<"a", "f", "t", "e", "r", " ">>
TxtSeconds == <<"s", "e", "c", "o", "n", "d", "s">>
TxtMinute == <<"m", "i", "n", "u", "t", "e">>

\* bodies of a failed magic-link request: {msg, error_code} and the status
Failure(code, error_code, m) == [okay |-> FALSE, code |-> code, error_code |-> error_code, msg |-> m]

Responses ==
    { [okay |-> TRUE, code |-> 200, error_code |-> "-", msg |-> <<>>],
      Failure(429, "over_email_send_rate_limit", TxtAfter \o <<"5", "4", " ">> \o TxtSeconds \o <<".">>),
      Failure(429, "over_email_send_rate_limit", TxtAfter \o <<"2", " ", "s", "e", "c", ".">>),
      Failure(429, "-", TxtAfter \o <<"1", "s">>),
      Failure(400, "over_email_send_rate_limit", NoMsg),
      Failure(422, "validation_failed", <<"x">>) }

EmailChoices == {<<>>, <<"a", "@", "b">>}

\* the form is rendered while there is no session
SetEmail ==
    /\ EventsAllowed
    /\ session = NoSession
    /\ \E e \in EmailChoices : e # email /\ email' = e
    /\ resp' = NoResp
    /\ prevUntil' = 0
    /\ lastOp' = Op("setEmail", "-", FALSE)
    /\ UNCHANGED <<error, ok, cooldownUntil, cooldownLeft, stored, intervals, effectDeps, inflight, now, saving, saveCall, persisted>>
    /\ UNCHANGED <<deckVars, parseVars>>

\* onMagicSubmit up to its await: the two early returns, or the request is sent
onMagicSubmit ==
    /\ EventsAllowed
    /\ session = NoSession
    /\ ok' = NoText
    /\ IF email = <<>>
       THEN /\ error' = Err("Enter an email first", 0)
            /\ inflight' = inflight
            /\ lastOp' = Op("submit", "noEmail", FALSE)
       ELSE IF cooldownLeft > 0
       THEN /\ error' = Err("Please wait", cooldownLeft)
            /\ inflight' = inflight
            /\ lastOp' = Op("submit", "wait", FALSE)
       ELSE /\ inflight < MaxInFlight
            /\ error' = NoText
            /\ inflight' = inflight + 1
            /\ lastOp' = Op("submit", "sent", TRUE)
    /\ resp' = NoResp
    /\ prevUntil' = 0
    /\ UNCHANGED <<email, cooldownUntil, cooldownLeft, stored, intervals, effectDeps, now, saving, saveCall, persisted>>
    /\ UNCHANGED <<deckVars, parseVars>>

\* onMagicSubmit after its await: signInMagic returned or threw
SignInResponse ==
    /\ EventsAllowed
    /\ inflight > 0
    /\ \E r \in Responses :
        /\ resp' = r
        /\ IF r.okay
           THEN /\ ok' = Err("Magic link sent", 0)
                /\ UNCHANGED <<error, cooldownUntil, cooldownLeft, stored, intervals, effectDeps>>
           ELSE IF IsRateLimit(r)
           THEN LET wait == WaitOf(parseWaitSeconds(r.msg))
                    until == NewDeadline(cooldownUntil, now, wait)
                IN /\ stored' = String(until)
                   /\ cooldownUntil' = until
                   /\ UNCHANGED <<cooldownLeft, intervals, effectDeps>>
                   /\ error' = Err("Too many requests", wait)
                   /\ ok' = ok
           ELSE /\ error' = Err("Sign-in failed", 0)
                /\ UNCHANGED <<ok, cooldownUntil, cooldownLeft, stored, intervals, effectDeps>>
    /\ inflight' = inflight - 1
    /\ prevUntil' = cooldownUntil
    /\ lastOp' = Op("response", "-", cooldownUntil' # cooldownUntil)
    /\ UNCHANGED <<email, now, saving, saveCall, persisted>>
    /\ UNCHANGED <<deckVars, parseVars>>

\* the cooldown effect runs for the cooldownUntil of the last render
CooldownEffectRuns ==
    /\ effectDeps # cooldownUntil
    /\ LET eff == CooldownEffect(intervals, effectDeps, cooldownUntil, now)
       IN cooldownLeft' = eff.left /\ intervals' = eff.intervals
    /\ effectDeps' = cooldownUntil
    /\ lastOp' = Op("effect", IF effectDeps = NoDeps THEN "mount" ELSE "update",
                    cooldownLeft' # cooldownLeft)
    /\ UNCHANGED <<email, error, ok, cooldownUntil, stored, inflight, now, saving, saveCall, persisted,
                   resp, prevUntil>>
    /\ UNCHANGED <<deckVars, parseVars>>

\* the callback of a scheduled interval, with the cooldownUntil of the
\* effect run that set it
tick ==
    /\ \E i \in intervals :
        /\ now >= i.next
        /\ LET left == CountdownLeft(i.until, now)
           IN /\ cooldownLeft' = left
              /\ intervals' = IF left = 0 THEN intervals \ {i}
                               ELSE (intervals \ {i}) \cup {Interval(i.until, i.next + MsPerSecond)}
    /\ resp' = NoResp
    /\ prevUntil' = 0
    /\ lastOp' = Op("tick", "-", cooldownLeft' # cooldownLeft)
    /\ UNCHANGED <<email, error, ok, cooldownUntil, stored, effectDeps, inflight, now, saving, saveCall, persisted>>
    /\ UNCHANGED <<deckVars, parseVars>>

\* the instant the first interval callback is due
NextDue == CHOOSE n \in {i.next : i \in intervals} : \A i \in intervals : n <= i.next

\* the clock moves on, by a step or up to the instant an interval callback
\* is due, which then runs before the clock moves again; a pending effect
\* runs before the clock moves.  Past MaxNow nothing but the countdown in
\* progress happens: the clock moves from one callback to the next.
AdvanceTime ==
    /\ effectDeps = cooldownUntil
    /\ \A i \in intervals : now < i.next
    /\ now < MaxNow \/ intervals # {}
    /\ now' = IF intervals # {} /\ (NextDue < now + TimeStep \/ now >= MaxNow)
              THEN NextDue ELSE now + TimeStep
    /\ resp' = NoResp
    /\ prevUntil' = 0
    /\ lastOp' = Op("time", "-", FALSE)
    /\ UNCHANGED <<email, error, ok, cooldownUntil, cooldownLeft, stored, intervals,
                   effectDeps, inflight, saving, saveCall, persisted>>
    /\ UNCHANGED <<deckVars, parseVars>>

\* the page is loaded again: the state is constructed anew, localStorage is
\* kept, the requests in flight and the intervals are gone, the effects of
\* the new component have not run yet, its loads have not completed
Reload ==
    /\ EventsAllowed
    /\ email' = <<>>
    /\ error' = NoText
    /\ ok' = NoText
    /\ inflight' = 0
    /\ saving' = FALSE
    /\ saveCall' = NoCall
    /\ \/ persisted' = persisted
       \/ /\ saveCall.pc = "decks"
          /\ persisted' = Append(persisted, DeckRow(saveCall.payload, FALSE))
       \/ /\ saveCall.pc = "deck_units"
          /\ persisted' = [persisted EXCEPT ![saveCall.deckRow].entries = TRUE]
    /\ cooldownUntil' = InitialCooldownUntil(stored)
    /\ cooldownLeft' = 0
    /\ intervals' = {}
    /\ effectDeps' = NoDeps
    /\ resp' = NoResp
    /\ prevUntil' = cooldownUntil
    /\ lastOp' = Op("reload", "-", FALSE)
    /\ session' = NoSession
    /\ units' = <<>>
    /\ ownership' = EmptyMap
    /\ ownLoad' = "idle"
    /\ pointCap' = DEFAULT_CAP
    /\ factionRule' = DEFAULT_RULE
    /\ ownedOnly' = TRUE
    /\ q' = <<>>
    /\ nation' = "All"
    /\ type' = "All"
    /\ deck' = EmptyMap
    /\ recLog' = <<>>
    /\ UNCHANGED <<stored, now>>
    /\ UNCHANGED parseVars

SignInNext ==
    \/ SetEmail
    \/ onMagicSubmit
    \/ SignInResponse
    \/ CooldownEffectRuns
    \/ tick
    \/ AdvanceTime
    \/ Reload

\* a pending effect is run, an interval callback that is due is run, and
\* time passes: no endless sequence of events takes place in one instant
SignInSpec ==
    /\ Init /\ [][SignInNext]_vars
    /\ SF_vars(AdvanceTime) /\ WF_vars(tick) /\ WF_vars(CooldownEffectRuns)

---------------------------------------------------------------------------
(* parseWaitSeconds as a function of the message: the message is drawn,    *)
(* then parsed.                                                            *)

\* tokens of a drawn message
MaxTokens == 3

Tokens ==
    { TxtAfter, <<"5", "4">>, <<"5", "4", " ">>, <<"1", " ">>, TxtSeconds, TxtSeconds \o <<".">>,
      <<"s", "e", "c", "o", "n", "d">>, <<"S", "e", "c">>, <<"s">>, TxtMinute, TxtMinute \o <<".">>,
      TxtMinute \o <<"s">>, <<"m", "i", "n">>, <<"m">>, <<"x">>, <<" ">> }

RECURSIVE Flatten(_)
Flatten(ts) == IF ts = <<>> THEN <<>> ELSE Head(ts) \o Flatten(Tail(ts))

ParseInputs ==
    {NoMsg} \cup {Flatten(ts) : ts \in UNION {[1..n -> Tokens] : n \in 0..MaxTokens}}

ParseInit ==
    /\ SignInit
    /\ DeckInit
    /\ msg \in ParseInputs
    /\ parsed = NullWait
    /\ lastOp = Op("init", "-", FALSE)

ParseMessage ==
    /\ lastOp.op = "init"
    /\ parsed' = parseWaitSeconds(msg)
    /\ lastOp' = Op("parse", "-", FALSE)
    /\ UNCHANGED <<msg, deckVars, signVars>>

ParseNext == ParseMessage

ParseSpec == ParseInit /\ [][ParseNext]_vars

---------------------------------------------------------------------------
(* The deck handlers under a point cap chosen before the first unit is     *)
(* added and never changed afterwards.                                     *)

FixedCapInit ==
    /\ SignInit
    /\ ParseIdle
    /\ session = NoSession
    /\ units = <<>>
    /\ ownership = EmptyMap
    /\ ownLoad = "idle"
    /\ pointCap \in {DEFAULT_CAP} \cup {POINT_CAPS[i] : i \in 1..MaxCapIdx}
    /\ factionRule = DEFAULT_RULE
    /\ ownedOnly = TRUE
    /\ q = <<>>
    /\ nation = "All"
    /\ type = "All"
    /\ deck = EmptyMap
    /\ lastOp = Op("init", "-", FALSE)
    /\ recLog = <<>>

FixedCapNext ==
    \/ LoadUnits
    \/ SignedIn
    \/ OwnershipLoaded
    \/ SetFactionRule
    \/ SetOwnedOnly
    \/ SetQ
    \/ SetNation
    \/ SetType
    \/ ResetFilters
    \/ AddFromList
    \/ AddFromPanel
    \/ RemoveFromList
    \/ RemoveFromPanel
    \/ clearDeck
    \/ recommend

FixedCapSpec == FixedCapInit /\ [][FixedCapNext]_vars

---------------------------------------------------------------------------
(* recommend as a function of the catalog, the ownership map, the cap and  *)
(* the rules: the inputs are drawn, then the handler runs.                 *)

\* units of a drawn catalog
MaxPool == 3

RecUnits == {Bismarck, Iowa, Gotland, Fletcher, Uboat, Mas, Decoy}

RecCatalogs ==
    {c \in UNION {[1..n -> RecUnits] : n \in 1..MaxPool} :
        \A i, j \in 1..Len(c) : i # j => c[i].id # c[j].id}

RecOwnerships ==
    { EmptyMap,
      [id \in {"bis", "fle", "ubo", "mas"} |->
          CASE id = "bis" -> OwnRec(TRUE, 3) [] id = "fle" -> OwnRec(TRUE, 2)
            [] id = "ubo" -> OwnRec(FALSE, 1) [] OTHER -> OwnRec(TRUE, 0)],
      [id \in {"bis", "iow", "dec"} |->
          CASE id = "bis" -> OwnRec(TRUE, 1) [] id = "iow" -> OwnRec(FALSE, 0)
            [] OTHER -> OwnRec(TRUE, 2)] }

RecInit ==
    /\ SignInit
    /\ ParseIdle
    /\ session = "user"
    /\ units \in RecCatalogs
    /\ ownership \in RecOwnerships
    /\ ownLoad = "done"
    /\ pointCap \in {POINT_CAPS[i] : i \in 1..Len(POINT_CAPS)}
    /\ factionRule \in FactionRules
    /\ ownedOnly \in BOOLEAN
    /\ q = <<>>
    /\ nation = "All"
    /\ type = "All"
    /\ deck = EmptyMap
    /\ lastOp = Op("init", "-", FALSE)
    /\ recLog = <<>>

RecNext == recommend

RecSpec == RecInit /\ [][RecNext]_vars

---------------------------------------------------------------------------
(* Saving: a signed-in or anonymous user with the catalog loaded builds a  *)
(* deck, changes the faction rule and saves.                               *)

SaveInit ==
    /\ SignInit
    /\ ParseIdle
    /\ units = Catalog
    /\ \/ /\ session = NoSession
          /\ ownership = EmptyMap
          /\ ownLoad = "idle"
          /\ ownedOnly = TRUE
       \/ /\ session = "user"
          /\ ownership \in OwnershipMaps
          /\ ownLoad = "done"
          /\ ownedOnly \in BOOLEAN
    /\ pointCap \in {POINT_CAPS[i] : i \in 1..MaxCapIdx}
    /\ factionRule \in FactionRules
    /\ q = <<>>
    /\ nation = "All"
    /\ type = "All"
    /\ deck = EmptyMap
    /\ lastOp = Op("init", "-", FALSE)
    /\ recLog = <<>>

SaveNext ==
    \/ SetFactionRule
    \/ AddFromList
    \/ AddFromPanel
    \/ RemoveFromPanel
    \/ clearDeck
    \/ SaveButton
    \/ DecksResponse
    \/ DeckUnitsResponse

\* a request that was sent is answered
SaveSpec ==
    /\ SaveInit /\ [][SaveNext]_vars
    /\ WF_vars(DecksResponse) /\ WF_vars(DeckUnitsResponse)

---------------------------------------------------------------------------
(* removeFromDeck as a function of the deck and the unit: both are drawn,   *)
(* then the handler runs.                                                  *)

\* decks over the catalog with counts up to MaxCount
Decks ==
    UNION {[ids -> 1..MaxCount] : ids \in SUBSET {Catalog[i].id : i \in 1..Len(Catalog)}}

RemoveInit ==
    /\ SignInit
    /\ ParseIdle
    /\ session = NoSession
    /\ units = Catalog
    /\ ownership = EmptyMap
    /\ ownLoad = "idle"
    /\ pointCap = DEFAULT_CAP
    /\ factionRule = DEFAULT_RULE
    /\ ownedOnly = TRUE
    /\ q = <<>>
    /\ nation = "All"
    /\ type = "All"
    /\ deck \in Decks
    /\ lastOp = Op("init", "-", FALSE)
    /\ recLog = <<>>

\* removeFromDeck(u) for a unit of the catalog, in the deck or not
RemoveAny ==
    \E i \in 1..Len(units) :
        /\ removeFromDeck(units[i])
        /\ lastOp' = Op("remove", units[i].id, deck' # deck)
        /\ recLog' = <<>>
        /\ UNCHANGED <<session, units, ownership, ownLoad, pointCap, factionRule,
                       ownedOnly, q, nation, type>>
        /\ UNCHANGED <<signVars, parseVars>>

RemoveNext == RemoveAny

RemoveSpec == RemoveInit /\ [][RemoveNext]_vars

---------------------------------------------------------------------------
(* The deck builder and the magic-link form side by side.  The user has    *)
(* typed an email and submitted twice; the first request was answered with *)
(* a rate limit of two seconds, the second is in flight; then the          *)
(* access token of the URL has resolved and the loads have completed.      *)
(* The user builds and saves a deck at this instant; the clock moves on    *)
(* once the request in flight is answered.                                 *)

FrameInit ==
    /\ ParseIdle
    /\ session = "user"
    /\ units = Catalog
    /\ ownership \in {m \in OwnershipMaps : "got" \in DOMAIN m}
    /\ ownLoad = "done"
    /\ pointCap = DEFAULT_CAP
    /\ factionRule = DEFAULT_RULE
    /\ ownedOnly = TRUE
    /\ q = <<>>
    /\ nation = "All"
    /\ type = "All"
    /\ deck = EmptyMap
    /\ recLog = <<>>
    /\ email = <<"a", "@", "b">>
    /\ now = 0
    /\ resp = Failure(429, "over_email_send_rate_limit", TxtAfter \o <<"2", " ", "s", "e", "c", ".">>)
    /\ prevUntil = 0
    /\ cooldownUntil = NewDeadline(0, now, WaitOf(parseWaitSeconds(resp.msg)))
    /\ stored = String(cooldownUntil)
    /\ effectDeps = cooldownUntil
    /\ cooldownLeft = CooldownEffect({}, 0, cooldownUntil, now).left
    /\ intervals = CooldownEffect({}, 0, cooldownUntil, now).intervals
    /\ error = Err("Too many requests", WaitOf(parseWaitSeconds(resp.msg)))
    /\ ok = NoText
    /\ inflight = 1
    /\ saving = FALSE
    /\ saveCall = NoCall
    /\ persisted = <<>>
    /\ lastOp = Op("load", "-", FALSE)

\* the user's work on the deck, at the first instant
DeckWork ==
    /\ now = 0
    /\ \/ SetFactionRule
       \/ SetQ
       \/ AddFromList
       \/ RemoveFromPanel
       \/ clearDeck
       \/ recommend

\* one deck is saved
SaveWork ==
    /\ now = 0
    /\ \/ persisted = <<>> /\ SaveButton
       \/ DecksResponse
       \/ DeckUnitsResponse

\* the clock of the time the responses arrive in
TimePasses == inflight = 0 /\ EventsAllowed /\ AdvanceTime

FrameNext ==
    \/ DeckWork
    \/ SaveWork
    \/ SignInResponse
    \/ CooldownEffectRuns
    \/ tick
    \/ TimePasses

FrameSpec == FrameInit /\ [][FrameNext]_vars

---------------------------------------------------------------------------
(* Claims *)

\* C1: with the point cap fixed, every deck reached from the empty deck by
\* the add controls, removeFromDeck, clearDeck and recommend has a total
\* (sum of count x points) of at most pointCap.
C1_TotalWithinCap == deckPoints <= pointCap

MatchesRule(rule, d, us) ==
    \A id \in DeckItemIds(d, us) :
        IF rule = "axis_only" THEN UnitOf(us, id).nation \in axis
        ELSE UnitOf(us, id).nation \in allies

\* C2: after a deck mutation (an add through either control, a remove, a
\* recommend), under axis_only or allies_only every unit of a non-empty deck
\* has a nation of the rule's faction set; and with axis_only and a Germany
\* unit in the deck, adding a unit of an Allies nation leaves the deck as it was.
C2_FactionOfRuleAfterMutation ==
    /\ (lastOp.op \in {"addList", "addPanel", "removeList", "removePanel", "recommend"}
        /\ lastOp.changed /\ factionRule # "mixed" /\ DOMAIN deck # {})
       => MatchesRule(factionRule, deck, units)
    /\ (lastOp.op \in {"addList", "addPanel"} /\ factionRule = "axis_only"
        /\ (\E id \in DeckItemIds(deck, units) : UnitOf(units, id).nation = "Germany")
        /\ HasUnit(units, lastOp.id) /\ UnitOf(units, lastOp.id).nation \in allies)
       => ~lastOp.changed

\* C3: for every unit with an ownership record the deck count is at most
\* the record's copies, in every reachable state (also after an ownership
\* load that completes when units are already in the deck).
C3_CountWithinCopies ==
    \A id \in DOMAIN ownership : Get(deck, id) <= ownership[id].copies

\* the three conditions of canAdd
CanAdd(u) ==
    /\ Get(deck, u.id) < maxCopies(ownership, u.id)
    /\ deckPoints + u.points <= pointCap
    /\ (factionRule = "mixed" \/ DOMAIN deck = {} \/ factionOfDeck = RuleFaction(factionRule))

\* C4: every addToDeck step that changes the deck starts in a state where
\* the three canAdd conditions hold for the unit added (count below the copies
\* cap, total + points within the cap, faction of the deck matching the rule).
C4_AddOnlyWhenCanAdd ==
    [][(lastOp'.op \in {"addList", "addPanel"} /\ deck' # deck)
        => CanAdd(UnitOf(units, lastOp'.id))]_vars

CountInLog(log, id) == Cardinality({k \in 1..Len(log) : log[k].id = id})

\* the cap=50 scenario: a 45-point unit ranked first, a 10-point unit second
ScenarioFortyFiveTen ==
    LET scored == SortByScore(filtered) IN
    /\ pointCap = 50
    /\ Len(scored) = 2
    /\ scored[1].points = 45 /\ scored[2].points = 10
    /\ maxCopies(ownership, scored[1].id) >= 1

\* C9: the deck recommend produces has a total of at most pointCap and, for
\* every unit, a count of at most its copies cap (99 without a record); every
\* copy it holds was given while its cost fitted in the remaining budget; with
\* cap 50, a 45-point unit first and a 10-point unit second, it is one copy of
\* the 45-point unit.
C9_RecommendWithinCaps ==
    lastOp.op = "recommend" =>
        /\ deckPoints <= pointCap
        /\ \A id \in DOMAIN deck : deck[id] <= maxCopies(ownership, id)
        /\ \A id \in UnitIds : Get(deck, id) = CountInLog(recLog, id)
        /\ \A k \in 1..Len(recLog) : recLog[k].spent + recLog[k].points <= pointCap
        /\ ScenarioFortyFiveTen =>
              /\ deck = Put(EmptyMap, SortByScore(filtered)[1].id, 1)
              /\ deckPoints = 45

\* C9 witness: recommend ran on the cap=50 scenario and left the 10-point unit out
C9_Witness ==
    /\ lastOp.op = "recommend"
    /\ ScenarioFortyFiveTen
    /\ Get(deck, SortByScore(filtered)[2].id) = 0
    /\ Len(recLog) = 1

\* C10 as stated: every copy recommend adds, the first copy of a candidate
\* included, is added with pointCap - spent >= 3 (and spent + points <=
\* pointCap, copies below the copies cap).
C10_ReserveBeforeEveryCopy ==
    lastOp.op = "recommend" =>
        \A k \in 1..Len(recLog) :
            /\ pointCap - recLog[k].spent >= ReserveMargin
            /\ recLog[k].spent + recLog[k].points <= pointCap
            /\ recLog[k].cur < recLog[k].limit

\* C10 amended: every copy is added with spent + points <= pointCap and
\* copies below the copies cap; a second or later copy of a candidate is
\* added with pointCap - spent >= 3; the first copy of a candidate is added
\* with pointCap - spent >= 2.
C10_ReserveBeforeLaterCopies ==
    lastOp.op = "recommend" =>
        \A k \in 1..Len(recLog) :
            /\ recLog[k].spent + recLog[k].points <= pointCap
            /\ recLog[k].cur < recLog[k].limit
            /\ recLog[k].cur >= 1 => pointCap - recLog[k].spent >= ReserveMargin
            /\ recLog[k].cur = 0 => pointCap - recLog[k].spent >= ReserveMargin - 1

\* C10 witness: recommend gave a first copy with 2 points left, and a later
\* copy of some candidate
C10_Witness ==
    /\ lastOp.op = "recommend"
    /\ \E k \in 1..Len(recLog) : recLog[k].cur = 0 /\ pointCap - recLog[k].spent = 2
    /\ \E k \in 1..Len(recLog) : recLog[k].cur >= 1

\* C5: parseWaitSeconds of a message holding an integer N followed by a
\* seconds unit word ("54 seconds") is N; otherwise, of one holding an
\* integer N followed by a minutes unit word, 60 * N; of an empty or
\* unit-less message it is null.
SecondsUnitWords == secondWords \o <<TxtSeconds>>
MinutesUnitWords == minuteWords \o <<TxtMinute \o <<"s">>>>

C5_WaitExtraction ==
    lastOp.op = "parse" =>
        IF msg = NoMsg \/ msg = <<>> THEN parsed = NullWait
        ELSE IF HasMatch(msg, SecondsUnitWords)
        THEN parsed = Seconds(parseInt(MatchGroup(msg, SecondsUnitWords)))
        ELSE IF HasMatch(msg, MinutesUnitWords)
        THEN parsed = Seconds(60 * parseInt(MatchGroup(msg, MinutesUnitWords)))
        ELSE parsed = NullWait

\* C5, its scenario: the message "after 54 seconds" has been parsed
C5_Witness ==
    /\ lastOp.op = "parse"
    /\ msg = TxtAfter \o <<"5", "4", " ">> \o TxtSeconds

RateLimited == lastOp.op = "response" /\ ~resp.okay /\ IsRateLimit(resp)

\* C6: after a sign-in request has failed with a rate limit, cooldownUntil is
\* now + wait * 1000, wait being the parsed duration or 60, whatever
\* cooldownUntil was before, and localStorage holds the same value.
C6_RateLimitSetsDeadline ==
    RateLimited =>
        /\ cooldownUntil = now + WaitOf(parseWaitSeconds(resp.msg)) * MsPerSecond
        /\ stored = String(cooldownUntil)
        /\ InitialCooldownUntil(stored) = cooldownUntil

\* C6, its case: the rate limit replaced a deadline that was later
C6_Witness ==
    /\ RateLimited
    /\ prevUntil > cooldownUntil
    /\ prevUntil > now

\* ceil(a / 1000) of a positive a, 0 of another
SecondsLeft(a) == IF a <= 0 THEN 0 ELSE (a + MsPerSecond - 1) \div MsPerSecond

\* the cooldown effect has run for the cooldownUntil of the last render
EffectDone == effectDeps = cooldownUntil

\* C7, the countdown while the deadline is ahead: the interval is set, its
\* callback is due within a second, and cooldownLeft is its last result
CountdownRuns ==
    EffectDone =>
        /\ lastOp.op = "tick" => cooldownLeft = SecondsLeft(cooldownUntil - now)
        /\ cooldownUntil > now =>
              /\ \E i \in intervals : i.until = cooldownUntil /\ i.next <= now + MsPerSecond
              /\ cooldownLeft >= SecondsLeft(cooldownUntil - now)
              /\ cooldownLeft <= SecondsLeft(cooldownUntil - now) + 1

\* C7: while cooldownUntil > now, once the effect has run for it,
\* cooldownLeft is max(0, ceil((cooldownUntil - now) / 1000)) as of the last
\* tick and a tick is due within a second; once now >= cooldownUntil, cooldownLeft reaches 0,
\* which enables the sign-in button of a non-empty email; a tick leaves
\* cooldownUntil as it is.
C7_CountdownReachesZero ==
    /\ []CountdownRuns
    /\ [](cooldownLeft = 0 /\ email # <<>> => ~SignInDisabled)
    /\ [][lastOp'.op = "tick" => cooldownUntil' = cooldownUntil]_vars
    /\ (now >= cooldownUntil) ~> (now >= cooldownUntil /\ cooldownLeft = 0)

\* C7, its case: a countdown has run out, the deadline is still set
C7_Witness ==
    /\ lastOp.op = "tick"
    /\ cooldownUntil > 0
    /\ now >= cooldownUntil
    /\ cooldownLeft = 0
    /\ email # <<>>
    /\ ~SignInDisabled

\* the page was loaded again and its cooldown effect has run
Reloaded == lastOp.op = "effect" /\ lastOp.id = "mount"

\* C8: after a reload at an instant before the stored deadline,
\* cooldownUntil is the stored deadline, which is the one of before the
\* reload, cooldownLeft is ceil((deadline - now) / 1000) once the effect of
\* the new page has run, and from then on, as long as the deadline is ahead,
\* the sign-in is blocked.
C8_ReloadKeepsCooldown ==
    /\ (Reloaded /\ stored # <<>> /\ now < parseInt(stored)) =>
          /\ cooldownUntil = parseInt(stored)
          /\ cooldownLeft = SecondsLeft(cooldownUntil - now)
    /\ lastOp.op = "reload" => cooldownUntil = prevUntil
    /\ (EffectDone /\ now < cooldownUntil) => (cooldownLeft > 0 /\ SignInDisabled)

\* C8, its case: a reload in the course of a countdown, not on a full second
C8_Witness ==
    /\ Reloaded
    /\ now < cooldownUntil
    /\ (cooldownUntil - now) % MsPerSecond # 0
    /\ cooldownLeft > 1

\* C11: recommend replaces the deck by a function of the filtered catalog,
\* the ownership map and pointCap, whatever the deck held before; a
\* recommend that follows a recommend leaves the deck as it is.
C11_RecommendReplacesDeck ==
    /\ [](lastOp.op = "recommend" => deck = Recommend(filtered, ownership, pointCap).next)
    /\ [][(lastOp.op = "recommend" /\ lastOp'.op = "recommend") => deck' = deck]_vars

\* C11, its case: recommend ran on a deck that held units and changed it
C11_Witness == lastOp = Op("recommend", "held", TRUE)

\* C12: removeFromDeck(u) with u at count c >= 2 leaves u at c - 1, with
\* c = 1 deletes u's entry, with u absent leaves the deck as it is; the
\* other entries are unchanged.
C12_RemoveDecrementsOrDeletes ==
    [][lastOp'.op = "remove" =>
        LET id == lastOp'.id
            c == Get(deck, id)
        IN /\ c >= 2 => (id \in DOMAIN deck' /\ deck'[id] = c - 1)
           /\ c = 1 => id \notin DOMAIN deck'
           /\ id \notin DOMAIN deck => deck' = deck
           /\ \A o \in UnitIds \ {id} :
                 /\ o \in DOMAIN deck' <=> o \in DOMAIN deck
                 /\ o \in DOMAIN deck => deck'[o] = deck[o]]_vars

\* C12, its case: removeFromDeck ran for a unit that a deck of two other
\* units does not hold
C12_Witness ==
    /\ lastOp.op = "remove"
    /\ ~lastOp.changed
    /\ lastOp.id \notin DOMAIN deck
    /\ Cardinality(DOMAIN deck) = 2

\* the three conditions of a save
SaveAllowed ==
    /\ session # NoSession
    /\ deckPoints <= pointCap
    /\ (factionRule = "mixed" \/ factionOfDeck = RuleFaction(factionRule))

\* C13: saveDeck posts to the decks endpoint only with a session,
\* deckPoints <= pointCap and (factionRule = mixed or factionOfDeck the
\* faction of the rule); otherwise it sets an error, posts nothing and, as in
\* every case, leaves the deck as it is.
C13_SaveOnlyWhenValid ==
    /\ [](lastOp = Op("save", "sent", FALSE) => (SaveAllowed /\ saving /\ error = NoText))
    /\ [](lastOp = Op("save", "refused", FALSE) => (~SaveAllowed /\ ~saving /\ error # NoText))
    /\ [][lastOp'.op = "save" =>
            /\ deck' = deck
            /\ (lastOp'.id = "sent" <=> SaveAllowed)]_vars

\* C13, its case: the save of a deck above the point cap was refused and the
\* deck is still above it
C13_Witness ==
    /\ lastOp = Op("save", "refused", FALSE)
    /\ deckPoints > pointCap
    /\ error = Err("Deck exceeds point cap", 0)

FactionErrors == {"Deck violates Axis-only rule", "Deck violates Allies-only rule"}

\* C14: with an empty deck, under every faction rule, the add gate blocks no
\* unit for its faction and saveDeck reports no faction violation.
C14_NoFactionViolationOnEmptyDeck ==
    DOMAIN deck = {} =>
        /\ ~(factionRule # "mixed" /\ DeckItemIds(deck, units) # {}
             /\ factionOfDeck # RuleFaction(factionRule))
        /\ \A i \in 1..Len(filtered) :
              Disabled(filtered[i]) => filtered[i].points > pointCap
                                       \/ maxCopies(ownership, filtered[i].id) <= 0
        /\ lastOp.op = "save" => error.kind \notin FactionErrors

\* C14, its case: saveDeck ran on an empty deck
C14_Witness ==
    /\ lastOp.op = "save"
    /\ DOMAIN deck = {}

\* t occurs in s, the case of the letters apart
ContainsNoCase(s, t) ==
    \E k \in 0..(Len(s) - Len(t)) : \A j \in 1..Len(t) : Lower(s[k + j]) = Lower(t[j])

\* the five stages of the filter, each passed when it is not active
PassesStages(u) ==
    /\ q = <<>> \/ ContainsNoCase(u.name, q) \/ ContainsNoCase(u.abilities, q)
    /\ nation = "All" \/ u.nation = nation
    /\ type = "All" \/ u.type = type
    /\ factionRule = "axis_only" => u.nation \in axis
    /\ factionRule = "allies_only" => u.nation \in allies
    /\ ownedOnly => /\ u.id \in DOMAIN ownership
                    /\ (ownership[u.id].owned \/ ownership[u.id].copies > 0)

\* position of the unit in the catalog
CatalogIndex(u) == CHOOSE i \in 1..Len(units) : units[i] = u

\* C15: filtered is the subsequence of the catalog, in catalog order, of the
\* units that pass every active stage (text, nation, type, faction,
\* ownership).
C15_FilteredIsCatalogSubsequence ==
    /\ \A i \in 1..Len(units) :
          PassesStages(units[i]) <=> \E k \in 1..Len(filtered) : filtered[k] = units[i]
    /\ \A k \in 1..Len(filtered) : \E i \in 1..Len(units) : units[i] = filtered[k]
    /\ \A k, l \in 1..Len(filtered) :
          k < l => CatalogIndex(filtered[k]) < CatalogIndex(filtered[l])

\* C15, its case: a search text in lower case keeps the units that hold it
\* in upper case and drops another
C15_Witness ==
    /\ q = <<"a", "a">>
    /\ Len(filtered) >= 1
    /\ Len(filtered) < Len(units)
    /\ \A k \in 1..Len(filtered) : filtered[k].abilities = <<"A", "A">>

\* C16: every entry of the deck has a count of at least 1.
C16_CountsAtLeastOne == \A id \in DOMAIN deck : deck[id] >= 1

\* C16, its case: the last copy of a unit was removed from a deck that holds
\* another unit
C16_Witness ==
    /\ lastOp.op \in {"removeList", "removePanel"}
    /\ lastOp.id \notin DOMAIN deck
    /\ DOMAIN deck # {}

\* C17: saveDeck without a session sets an error and posts nothing, and
\* while ownedOnly filters the loaded catalog without a session an error
\* message is set.
C17_AuthRequiredMessage ==
    /\ (lastOp.op = "save" /\ session = NoSession) => (error # NoText /\ ~saving)
    /\ (ownedOnly /\ session = NoSession /\ units # <<>>) => error # NoText

\* C17, its case: no session, the catalog loaded, ownedOnly on, nothing listed
C17_Witness ==
    /\ session = NoSession
    /\ ownedOnly
    /\ units # <<>>
    /\ filtered = <<>>

\* a is ranked before b: a higher score, or the same score and an earlier
\* place in the filtered catalog
FilteredIndex(u) == CHOOSE i \in 1..Len(filtered) : filtered[i] = u
SameScore(a, b) == ~ScoreGreater(a, b) /\ ~ScoreGreater(b, a)
RankedBefore(a, b) ==
    \/ ScoreGreater(a, b)
    \/ SameScore(a, b) /\ FilteredIndex(a) < FilteredIndex(b)

\* the points of the copies given to a and to the candidates ranked before it
RECURSIVE SpentOn(_, _)
SpentOn(a, i) ==
    IF i = 0 THEN 0
    ELSE (IF filtered[i] = a \/ RankedBefore(filtered[i], a)
          THEN CountInLog(recLog, filtered[i].id) * filtered[i].points ELSE 0)
         + SpentOn(a, i - 1)
SpentThrough(a) == SpentOn(a, Len(filtered))

\* the filling of a has ended: a is at its copies cap, or one more copy
\* would exceed pointCap, or the reserve stop fired after a copy of a
FillingEnded(a) ==
    LET n == CountInLog(recLog, a.id)
        s == SpentThrough(a)
    IN \/ n >= maxCopies(ownership, a.id)
       \/ s + a.points > pointCap
       \/ (n >= 1 /\ pointCap - s < ReserveMargin)

\* C20: recommend fills the candidates in descending order of
\* (sum of the four stats) / max(1, points), ties in catalog order: when a
\* candidate receives a copy, every candidate ranked before it has received
\* all its copies, which were spent before this one, and its filling has
\* ended (copies cap reached, next copy over pointCap, or reserve stop).
C20_FillsInScoreOrder ==
    lastOp.op = "recommend" =>
        \A i \in 1..Len(filtered) :
            LET a == filtered[i]
                spentA == SpentThrough(a)
                endedA == FillingEnded(a)
            IN \A k \in 1..Len(recLog) :
                  RankedBefore(a, UnitOf(filtered, recLog[k].id)) =>
                      /\ \A j \in k..Len(recLog) : recLog[j].id # a.id
                      /\ recLog[k].spent >= spentA
                      /\ endedA

\* C20 witness: a candidate received a copy after one of the same score,
\* earlier in the catalog, that received copies too, and after one of a
\* higher score
C20_Witness ==
    /\ lastOp.op = "recommend"
    /\ \E k \in 1..Len(recLog) : \E i, h \in 1..Len(filtered) :
          LET b == UnitOf(filtered, recLog[k].id) IN
          /\ SameScore(filtered[i], b) /\ i < FilteredIndex(b)
          /\ CountInLog(recLog, filtered[i].id) >= 1
          /\ ScoreGreater(filtered[h], b)
          /\ CountInLog(recLog, filtered[h].id) >= 1

\* a sign-in request has just been sent
RequestSent == lastOp = Op("submit", "sent", TRUE)

\* C18: no sign-in request is sent at an instant before cooldownUntil,
\* whatever the order of submits, ticks, responses and reloads.
C18_NoRequestDuringCooldown == RequestSent => ~(now < cooldownUntil)

\* C18, its case: a request is sent between a rate-limit response and the
\* run of the cooldown effect, while an earlier request is in flight
C18_Witness ==
    /\ RequestSent
    /\ now < cooldownUntil
    /\ ~EffectDone
    /\ effectDeps # NoDeps
    /\ cooldownLeft = 0
    /\ inflight > 1

\* C19: at most one interval is scheduled at any time; when cooldownLeft is
\* 0 none is; an interval is scheduled only by the effect run for a new
\* cooldownUntil or of a new page; once the deadline is reached the interval
\* is eventually unscheduled, and with cooldownUntil unchanged none is
\* scheduled again.
C19_OneIntervalUnscheduledAtZero ==
    /\ [](Cardinality(intervals) <= 1)
    /\ [](cooldownLeft = 0 => intervals = {})
    /\ [][(intervals = {} /\ intervals' # {}) =>
            (lastOp'.op = "effect" /\ effectDeps # cooldownUntil /\ cooldownUntil > now)]_vars
    /\ [][(EffectDone /\ now >= cooldownUntil /\ intervals = {} /\ cooldownUntil' = cooldownUntil)
            => intervals' = {}]_vars
    /\ (now >= cooldownUntil) ~> (intervals = {})

\* C19, its case: the effect run for a new deadline has replaced the
\* interval of the deadline before, which was still scheduled
C19_Witness ==
    /\ lastOp.op = "effect"
    /\ lastOp.id = "update"
    /\ prevUntil > now
    /\ prevUntil # cooldownUntil
    /\ Cardinality(intervals) = 1
    /\ \A i \in intervals : i.until = cooldownUntil

\* saveDeck has ended with an error shown or with "Deck saved"
SaveFailed == lastOp.op = "saved" /\ error = Err("save failed", 0)
SaveReported == lastOp.op = "saved" /\ ok = Err("Deck saved", 0)

\* a deck record whose unit entries the persister does not hold
RowWithoutEntries(row) == DOMAIN row.payload # {} /\ ~row.entries

\* C22: "Deck saved" is shown only when the deck record and all its unit
\* entries are stored; when saveDeck ends with an error no deck record
\* without its entries is stored; saving is eventually false again.
C22_SaveAllOrNothing ==
    /\ [](SaveReported =>
            /\ persisted # <<>>
            /\ ~RowWithoutEntries(persisted[Len(persisted)]))
    /\ [](SaveFailed => \A i \in 1..Len(persisted) : ~RowWithoutEntries(persisted[i]))
    /\ saving ~> ~saving

\* C22, its case: the deck record was accepted, its entries were refused,
\* and the user is shown the failure
C22_Witness ==
    /\ lastOp = Op("saved", "entries refused", FALSE)
    /\ SaveFailed
    /\ ~saving
    /\ persisted # <<>>
    /\ RowWithoutEntries(persisted[Len(persisted)])

\* a failure with status 429 or the rate-limit error code
RateLimitFailure(r) ==
    ~r.okay /\ (r.code = 429 \/ r.error_code = "over_email_send_rate_limit")

SignInOps == {"setEmail", "submit", "response", "effect", "tick"}

\* C21: cooldownUntil and the stored deadline change only in the step of a
\* rate-limited sign-in failure, the stored deadline is cooldownUntil, and
\* no step of the magic-link form changes the deck.
C21_DeadlineChangesOnlyOnRateLimit ==
    /\ [][(cooldownUntil' # cooldownUntil \/ stored' # stored) =>
            (lastOp'.op = "response" /\ RateLimitFailure(resp'))]_vars
    /\ [](InitialCooldownUntil(stored) = cooldownUntil)
    /\ [][lastOp'.op \in SignInOps => deck' = deck]_vars

\* C21, its case: with a deck built and a deadline ahead, a sign-in failure
\* that is no rate limit has left the deadline as it was
C21_Witness ==
    /\ lastOp.op = "response"
    /\ ~resp.okay
    /\ ~RateLimitFailure(resp)
    /\ cooldownUntil > now
    /\ cooldownUntil = prevUntil
    /\ stored = String(cooldownUntil)
    /\ DOMAIN deck # {}

=============================================================================
